---- MODULE Spec2Model ----
(***************************************************************************)
(* Christmas-ladder backtest pipeline of clevertang/trading-system:        *)
(*   price series -> generate_orders -> execute_orders -> run_backtest.    *)
(*                                                                         *)
(* Timestamps are seconds since 1970 on a 12 x 31 day grid, so that the    *)
(* date, the year and the clock time of a timestamp are computed from it.  *)
(* Money is                                                                *)
(* counted in ticks of 1/10000 of a currency unit: the series quotes whole *)
(* currency units (multiples of BpsScale ticks), which makes the slippage  *)
(* multiplication of the simulator exact.  Floating-point rounding is not  *)
(* modelled.                                                               *)
(***************************************************************************)
EXTENDS Integers, Sequences, FiniteSets, TLC

VARIABLES
    pc,        \* position of the caller in the pipeline
    df,        \* the price series: bars in strictly increasing time order
    index_kind, \* the type of df.index: "datetime" or "range"
    params,    \* the inputs of the calls made so far
    orders,    \* the table returned by generate_orders, or built by hand
    executed,  \* the table returned by execute_orders / given to run_backtest
    result     \* what the last call returned or raised

vars == <<pc, df, index_kind, params, orders, executed, result>>

(***************************************************************************)
(* Bounds and input domains                                                *)
(***************************************************************************)
MaxBars == 3      \* bars in the series
MaxDays == 2      \* largest buy_days / sell_days
MaxOrders == 3    \* rows of a table handed directly to run_backtest
MaxDayBars == 4   \* bars of an intraday series
MaxIntended == 2  \* rows of a hand-built table of intended orders

BpsScale == 10000 \* ticks per currency unit = basis points per unit

(***************************************************************************)
(* Timestamps                                                              *)
(***************************************************************************)
Stamp(y, m, d, hh, mm) ==
    (((y - 1970) * 12 + (m - 1)) * 31 + (d - 1)) * 86400 + hh * 3600 + mm * 60

\* ts.date(), as a day number
DateOf(ts) == ts \div 86400
\* ts.year
YearOf(ts) == 1970 + ts \div (86400 * 31 * 12)
\* seconds since midnight
ClockOf(ts) == ts % 86400
\* midnight of a day number (pd.to_datetime(date))
Midnight(d) == d * 86400

\* a clock string "HH:MM" is the sequence of its four digits
ClockStr(hh, mm) == <<hh \div 10, hh % 10, mm \div 10, mm % 10>>
\* timestamp.strftime("%H:%M")
StrfTime(ts) == ClockStr(ClockOf(ts) \div 3600, (ClockOf(ts) \div 60) % 60)
\* the seconds pd.Timestamp(f"{date} {time_str}") adds to the date
ParseClock(s) == ((s[1] * 10 + s[2]) * 60 + s[3] * 10 + s[4]) * 60

RECURSIVE StrLeqFrom(_, _, _)
StrLeqFrom(a, b, i) ==
    IF i > Len(a) THEN TRUE
    ELSE IF i > Len(b) THEN FALSE
    ELSE IF a[i] < b[i] THEN TRUE
    ELSE IF a[i] > b[i] THEN FALSE
    ELSE StrLeqFrom(a, b, i + 1)
\* Python's <= on str: lexicographic
StrLeq(a, b) == StrLeqFrom(a, b, 1)

(***************************************************************************)
(* Sequence helpers                                                        *)
(***************************************************************************)
SetMin(S) == CHOOSE x \in S : \A y \in S : x <= y

RECURSIVE SortedSeq(_)
\* sorted(set), ascending
SortedSeq(S) ==
    IF S = {} THEN <<>> ELSE <<SetMin(S)>> \o SortedSeq(S \ {SetMin(S)})

\* s[-n:] of Python, for n >= 0 (s[-0:] is the whole of s)
LastSlice(s, n) ==
    IF n = 0 \/ n >= Len(s) THEN s ELSE SubSeq(s, Len(s) - n + 1, Len(s))
\* s[:n] of Python, for n >= 0
FirstSlice(s, n) == IF n >= Len(s) THEN s ELSE SubSeq(s, 1, n)

RECURSIVE InsertByTime(_, _)
InsertByTime(row, s) ==
    IF s = <<>> THEN <<row>>
    ELSE IF row.time < Head(s).time THEN <<row>> \o s
    ELSE <<Head(s)>> \o InsertByTime(row, Tail(s))

RECURSIVE SortByTime(_)
\* DataFrame.sort_values("time").reset_index(drop=True)
SortByTime(s) ==
    IF s = <<>> THEN <<>>
    ELSE InsertByTime(s[Len(s)], SortByTime(SubSeq(s, 1, Len(s) - 1)))

(***************************************************************************)
(* The price series (owned by the data feed, read-only for the pipeline)   *)
(***************************************************************************)
Years == {2023}

\* the timestamps a bar may carry: November, the days around December 25,
\* the next January; midnight (daily bars), the open, the close
Stamps ==
    { Stamp(2023, 11, 30, 16, 0),
      Stamp(2023, 12, 24, 9, 30), Stamp(2023, 12, 24, 16, 0),
      Stamp(2023, 12, 25, 9, 30),
      Stamp(2023, 12, 26, 0, 0), Stamp(2023, 12, 26, 9, 30),
      Stamp(2023, 12, 26, 16, 0),
      Stamp(2023, 12, 27, 9, 30),
      Stamp(2024, 1, 2, 9, 30) }

\* Open, High, Low, Close in ticks, Low <= Open, Close <= High; Volume >= 0
BarShapes ==
    { [Open |-> 2 * BpsScale, High |-> 3 * BpsScale, Low |-> 1 * BpsScale,
       Close |-> 2 * BpsScale, Volume |-> 1000],
      [Open |-> 4 * BpsScale, High |-> 5 * BpsScale, Low |-> 4 * BpsScale,
       Close |-> 4 * BpsScale, Volume |-> 200] }

MkBar(ts, shape) ==
    [ts |-> ts, Open |-> shape.Open, High |-> shape.High, Low |-> shape.Low,
     Close |-> shape.Close, Volume |-> shape.Volume]

Cashes == {-6 * BpsScale, 0, 12 * BpsScale}
SellClocks == {ClockStr(10, 30)}
Slippages == {0, 100}

\* df[df.index.date == d]
BarsOn(series, d) == SelectSeq(series, LAMBDA b : DateOf(b.ts) = d)
\* df.loc[ts]
BarAt(series, ts) == CHOOSE b \in {series[i] : i \in 1..Len(series)} : b.ts = ts

(***************************************************************************)
(* utils/calendar.py                                                       *)
(***************************************************************************)
\* _pick_last_n
PickLastN(dates, n) == IF Len(dates) >= n THEN LastSlice(dates, n) ELSE dates

\* _pick_first_n
PickFirstN(dates, n) == IF Len(dates) >= n THEN FirstSlice(dates, n) ELSE dates

YearDatesAnyYear(series, anchor) ==
    SortedSeq({Midnight(DateOf(series[i].ts)) : i \in 1..Len(series)})
\* the unique calendar dates of the anchor's year, ascending, as midnights
YearDates(series, anchor) ==
    SortedSeq({Midnight(DateOf(series[i].ts)) :
                 i \in {j \in 1..Len(series) : YearOf(series[j].ts) = YearOf(anchor)}})

PreDatesInclusive(series, anchor) ==
    SelectSeq(YearDates(series, anchor), LAMBDA d : d <= anchor)
\* dates[dates < anchor_date]
PreDates(series, anchor) ==
    SelectSeq(YearDates(series, anchor), LAMBDA d : d < anchor)

PostDatesUnfiltered(series, anchor) == YearDates(series, anchor)
\* dates[dates > anchor_date]
PostDates(series, anchor) ==
    SelectSeq(YearDates(series, anchor), LAMBDA d : d > anchor)

\* get_trading_days_around_date raises ValueError("No data for year ...")
NoDataForYear(series, anchor) == YearDates(series, anchor) = <<>>

\* get_trading_days_around_date, when it returns
TradingDaysAround(series, anchor, before_days, after_days) ==
    [pre  |-> PickLastN(PreDates(series, anchor), before_days),
     post |-> PickFirstN(PostDates(series, anchor), after_days)]

NotDatetimeIndex(kind) == kind # "datetime"

\* what raise ValueError(message) leaves the caller with
ValueError(message) == [error |-> "ValueError", message |-> message]
Raises(r) == "error" \in DOMAIN r

ResolveDaysNoYearCheck(series, kind, anchor, before_days, after_days) ==
    IF NotDatetimeIndex(kind)
    THEN ValueError("DataFrame index must be DatetimeIndex.")
    ELSE TradingDaysAround(series, anchor, before_days, after_days)
\* get_trading_days_around_date: the pair of date lists, or the error raised
ResolveDays(series, kind, anchor, before_days, after_days) ==
    IF NotDatetimeIndex(kind)
    THEN ValueError("DataFrame index must be DatetimeIndex.")
    ELSE IF NoDataForYear(series, anchor)
    THEN ValueError("No data for year")
    ELSE TradingDaysAround(series, anchor, before_days, after_days)

(***************************************************************************)
(* execution/timing.py                                                     *)
(***************************************************************************)
\* find_execution_bar raises RuntimeError("No bars on ...")
NoBarsOn(series, target) == BarsOn(series, DateOf(target)) = <<>>

\* what raise RuntimeError(message) leaves the caller with
RuntimeError(message) == [error |-> "RuntimeError", message |-> message]

FindExecutionBarFirstFallback(series, target, time_str) ==
    LET same_day == BarsOn(series, DateOf(target))
        target_time == Midnight(DateOf(target)) + ParseClock(time_str)
        later_bars == SelectSeq(same_day, LAMBDA b : b.ts >= target_time)
    IN  IF Len(same_day) = 1 THEN same_day[1].ts
        ELSE IF Len(later_bars) > 0 THEN later_bars[1].ts
        ELSE same_day[1].ts
FindExecutionBarLast(series, target, time_str) ==
    LET same_day == BarsOn(series, DateOf(target))
    IN  same_day[Len(same_day)].ts
\* find_execution_bar, when the day has bars
FindExecutionBar(series, target, time_str) ==
    LET same_day == BarsOn(series, DateOf(target))
        target_time == Midnight(DateOf(target)) + ParseClock(time_str)
        later_bars == SelectSeq(same_day, LAMBDA b : b.ts >= target_time)
    IN  IF Len(same_day) = 1 THEN same_day[1].ts
        ELSE IF Len(later_bars) > 0 THEN later_bars[1].ts
        ELSE same_day[Len(same_day)].ts

\* find_execution_bar: the timestamp of the bar, or the error raised
LocateBar(series, target, time_str) ==
    IF NoBarsOn(series, target) THEN RuntimeError("No bars on")
    ELSE [bar |-> FindExecutionBar(series, target, time_str)]

GetMarketOpenCloseWholeSeries(series, date) ==
    IF NoBarsOn(series, date) THEN RuntimeError("No market data for")
    ELSE [market_open |-> series[1].ts, market_close |-> series[Len(series)].ts]
\* get_market_open_close: the pair of timestamps, or the error raised
GetMarketOpenClose(series, date) ==
    LET same_day == BarsOn(series, DateOf(date))
    IN  IF same_day = <<>> THEN RuntimeError("No market data for")
        ELSE [market_open |-> same_day[1].ts,
              market_close |-> same_day[Len(same_day)].ts]

IsMarketHoursBeforeClose(ts, market_open, market_close) ==
    /\ StrLeq(market_open, StrfTime(ts))
    /\ StrLeq(StrfTime(ts), market_close)
    /\ StrfTime(ts) # market_close
\* is_market_hours
IsMarketHours(ts, market_open, market_close) ==
    StrLeq(market_open, StrfTime(ts)) /\ StrLeq(StrfTime(ts), market_close)

MarketOpen == ClockStr(9, 30)
MarketClose == ClockStr(16, 0)

(***************************************************************************)
(* strategies/christmas_ladder.py                                          *)
(***************************************************************************)
OrderCols == {"time", "side", "qty", "price", "value"}

\* pd.Timestamp(year=p.year, month=12, day=25)
Xmas(year) == Stamp(year, 12, 25, 0, 0)

BuyQtyWholeCash(cash, n, px) == cash \div px
\* int(alloc // px) with alloc = cash / n: the floor of cash / (n * px)
BuyQty(cash, n, px) == cash \div (n * px)

SkipBuyNegativeOnly(qty) == qty < 0
\* if qty <= 0: continue
SkipBuy(qty) == qty <= 0

RECURSIVE BuyLoop(_, _, _, _, _)
\* the buy loop from its k-th date on; acc = [rows, cash, position]
BuyLoop(series, buy_dates, k, alloc_cash, acc) ==
    IF k > Len(buy_dates) THEN acc
    ELSE
      LET bars == BarsOn(series, DateOf(buy_dates[k]))
          ts == bars[Len(bars)].ts
          px == BarAt(series, ts).Close
          qty == BuyQty(alloc_cash, IF Len(buy_dates) > 1 THEN Len(buy_dates) ELSE 1, px)
      IN  IF SkipBuy(qty) THEN BuyLoop(series, buy_dates, k + 1, alloc_cash, acc)
          ELSE BuyLoop(series, buy_dates, k + 1, alloc_cash,
                 [rows |-> Append(acc.rows,
                             [time |-> ts, side |-> "BUY", qty |-> qty,
                              price |-> px, value |-> -qty * px]),
                  cash |-> acc.cash - qty * px,
                  position |-> acc.position + qty])

SellQtyFixedFraction(position, i, sell_days) == position \div sell_days
\* position // (p.sell_days - i + 1) if i < p.sell_days else position
SellQty(position, i, sell_days) ==
    IF i < sell_days THEN position \div (sell_days - i + 1) ELSE position

RECURSIVE SellLoop(_, _, _, _, _)
\* the sell loop from index i on (1-based, as enumerate(.., start=1))
SellLoop(series, sell_dates, i, p, acc) ==
    IF i > Len(sell_dates) THEN acc
    ELSE IF acc.position <= 0 THEN acc
    ELSE
      LET sell_qty == SellQty(acc.position, i, p.sell_days)
          ts == FindExecutionBar(series, sell_dates[i], p.sell_execution_time)
          px == BarAt(series, ts).Close
      IN  IF sell_qty <= 0 THEN SellLoop(series, sell_dates, i + 1, p, acc)
          ELSE SellLoop(series, sell_dates, i + 1, p,
                 [rows |-> Append(acc.rows,
                             [time |-> ts, side |-> "SELL", qty |-> sell_qty,
                              price |-> px, value |-> sell_qty * px]),
                  cash |-> acc.cash + sell_qty * px,
                  position |-> acc.position - sell_qty])

\* the local variables of generate_orders when its two loops have ended
LadderState(series, cash, p) ==
    LET days == TradingDaysAround(series, Xmas(p.year), p.buy_days, p.sell_days)
        bought == BuyLoop(series, days.pre, 1, cash,
                          [rows |-> <<>>, cash |-> cash, position |-> 0])
    IN  SellLoop(series, days.post, 1, p, bought)

GenerateOrdersNoSchema(series, cash, p) ==
    LET st == LadderState(series, cash, p)
    IN  IF st.rows = <<>> THEN [cols |-> {}, rows |-> <<>>]
        ELSE [cols |-> OrderCols, rows |-> SortByTime(st.rows)]
\* generate_orders, when the Calendar Resolver returns
GenerateOrders(series, cash, p) ==
    LET st == LadderState(series, cash, p)
    IN  IF st.rows = <<>> THEN [cols |-> OrderCols, rows |-> <<>>]
        ELSE [cols |-> OrderCols, rows |-> SortByTime(st.rows)]

(***************************************************************************)
(* execution/simulator.py                                                  *)
(***************************************************************************)
ExecutedCols == OrderCols \cup {"original_time", "slippage_bps"}

Min(a, b) == IF a <= b THEN a ELSE b
Max(a, b) == IF a >= b THEN a ELSE b

\* validate_order_timing
ValidateOrderTiming(order, series) ==
    /\ \E i \in 1..Len(series) : DateOf(series[i].ts) = DateOf(order.time)
    /\ IsMarketHours(order.time, MarketOpen, MarketClose)

ApplySlippageUncapped(intended_price, market_bar, side, slippage_bps) ==
    IF side = "BUY"
    THEN (intended_price * (BpsScale + slippage_bps)) \div BpsScale
    ELSE (intended_price * (BpsScale - slippage_bps)) \div BpsScale
\* _apply_slippage
ApplySlippage(intended_price, market_bar, side, slippage_bps) ==
    IF side = "BUY"
    THEN Min((intended_price * (BpsScale + slippage_bps)) \div BpsScale,
             market_bar.High)
    ELSE Max((intended_price * (BpsScale - slippage_bps)) \div BpsScale,
             market_bar.Low)

CheckLiquidityStrict(order_qty, bar_volume) ==
    IF bar_volume <= 0 THEN FALSE ELSE order_qty * 100 < bar_volume
\* _check_liquidity: order_qty / bar_volume <= 0.01
CheckLiquidity(order_qty, bar_volume) ==
    IF bar_volume <= 0 THEN FALSE ELSE order_qty * 100 <= bar_volume

\* _calculate_slippage_bps, as the fraction num / den
CalculateSlippageBps(intended_price, execution_price) ==
    IF intended_price = 0 THEN [num |-> 0, den |-> 1]
    ELSE [num |-> (execution_price - intended_price) * BpsScale,
          den |-> intended_price]

OrderValueUnsigned(side, qty, execution_price) == qty * execution_price
\* -order["qty"] * execution_price if order["side"] == "BUY" else the positive
OrderValue(side, qty, execution_price) ==
    IF side = "BUY" THEN -qty * execution_price ELSE qty * execution_price

\* the body of the loop of execute_orders for one order: the rows it appends
ExecuteOne(order, series, slippage_bps, min_liquidity_check) ==
    IF ~ValidateOrderTiming(order, series) THEN <<>>
    ELSE IF NoBarsOn(series, order.time) THEN <<>>
    ELSE
      LET execution_time == FindExecutionBar(series, order.time, MarketOpen)
          market_bar == BarAt(series, execution_time)
          execution_price ==
              ApplySlippage(order.price, market_bar, order.side, slippage_bps)
      IN  IF min_liquidity_check /\ "Volume" \notin DOMAIN market_bar
          THEN <<>>   \* market_bar["Volume"] raises KeyError, which is caught
          ELSE IF min_liquidity_check
                    /\ ~CheckLiquidity(order.qty, market_bar.Volume)
          THEN <<>>
          ELSE << [time |-> execution_time,
                   side |-> order.side,
                   qty |-> order.qty,
                   price |-> execution_price,
                   value |-> OrderValue(order.side, order.qty, execution_price),
                   original_time |-> order.time,
                   slippage_bps |->
                       CalculateSlippageBps(order.price, execution_price)] >>

RECURSIVE ExecuteLoopAbort(_, _, _, _)
ExecuteLoopAbort(rows, series, slippage_bps, min_liquidity_check) ==
    IF rows = <<>> THEN <<>>
    ELSE IF ExecuteOne(Head(rows), series, slippage_bps, min_liquidity_check) = <<>>
    THEN <<>>
    ELSE ExecuteOne(Head(rows), series, slippage_bps, min_liquidity_check)
         \o ExecuteLoopAbort(Tail(rows), series, slippage_bps, min_liquidity_check)

\* the loop of execute_orders: the list executed_orders
RECURSIVE ExecuteLoop(_, _, _, _)
ExecuteLoop(rows, series, slippage_bps, min_liquidity_check) ==
    IF rows = <<>> THEN <<>>
    ELSE ExecuteOne(Head(rows), series, slippage_bps, min_liquidity_check)
         \o ExecuteLoop(Tail(rows), series, slippage_bps, min_liquidity_check)

\* execute_orders
ExecuteOrders(table, series, slippage_bps, min_liquidity_check) ==
    IF table.rows = <<>> THEN table
    ELSE
      LET executed_orders ==
              ExecuteLoop(table.rows, series, slippage_bps, min_liquidity_check)
      IN  IF executed_orders = <<>> THEN [cols |-> table.cols, rows |-> <<>>]
          ELSE [cols |-> ExecutedCols, rows |-> SortByTime(executed_orders)]

(***************************************************************************)
(* backtest/engine.py                                                      *)
(***************************************************************************)
RECURSIVE SumValue(_)
\* orders["value"].sum()
SumValue(rows) ==
    IF rows = <<>> THEN 0 ELSE Head(rows).value + SumValue(Tail(rows))

RECURSIVE SumQty(_, _)
\* orders.loc[orders["side"] == side, "qty"].sum()
SumQty(rows, side) ==
    IF rows = <<>> THEN 0
    ELSE (IF Head(rows).side = side THEN Head(rows).qty ELSE 0)
         + SumQty(Tail(rows), side)

RemainingSharesClamped(rows) == Max(SumQty(rows, "BUY") - SumQty(rows, "SELL"), 0)
\* int(bought - sold)
RemainingShares(rows) == SumQty(rows, "BUY") - SumQty(rows, "SELL")

EndingCashSpent(rows, initial_cash) == initial_cash - SumValue(rows)
\* initial_cash + cash_flow
EndingCash(rows, initial_cash) == initial_cash + SumValue(rows)

RemainingValueMarkFirst(rows) ==
    IF RemainingShares(rows) > 0 /\ rows # <<>>
    THEN RemainingShares(rows) * rows[1].price
    ELSE 0
\* remaining_shares * last_price when remaining_shares > 0, else 0.0
RemainingValueMark(rows) ==
    IF RemainingShares(rows) > 0 /\ rows # <<>>
    THEN RemainingShares(rows) * rows[Len(rows)].price
    ELSE 0

TotalValueCashOnly(ending_cash, remaining_value_mark) == ending_cash
\* ending_cash + remaining_value_mark
TotalValueOf(ending_cash, remaining_value_mark) ==
    ending_cash + remaining_value_mark

\* pnl / initial_cash if initial_cash > 0 else 0.0, as the fraction num / den
ReturnPct(pnl, initial_cash) ==
    IF initial_cash > 0 THEN [num |-> pnl, den |-> initial_cash]
    ELSE [num |-> 0, den |-> 1]

EmptyResultNoCash(table, initial_cash) ==
    [orders |-> table,
     initial_cash |-> initial_cash,
     ending_cash |-> 0,
     remaining_shares |-> 0,
     remaining_value_mark |-> 0,
     pnl |-> 0,
     return_pct |-> [num |-> 0, den |-> 1]]
\* the record run_backtest returns for an empty table
EmptyResult(table, initial_cash) ==
    [orders |-> table,
     initial_cash |-> initial_cash,
     ending_cash |-> initial_cash,
     remaining_shares |-> 0,
     remaining_value_mark |-> 0,
     pnl |-> 0,
     return_pct |-> [num |-> 0, den |-> 1]]

\* run_backtest
RunBacktest(table, initial_cash) ==
    IF table.rows = <<>> THEN EmptyResult(table, initial_cash)
    ELSE
      LET ending_cash == EndingCash(table.rows, initial_cash)
          remaining_shares == RemainingShares(table.rows)
          remaining_value_mark == RemainingValueMark(table.rows)
          total_value == TotalValueOf(ending_cash, remaining_value_mark)
          pnl == total_value - initial_cash
      IN  [orders |-> table,
           initial_cash |-> initial_cash,
           ending_cash |-> ending_cash,
           remaining_shares |-> remaining_shares,
           remaining_value_mark |-> remaining_value_mark,
           total_value |-> total_value,
           pnl |-> pnl,
           return_pct |-> ReturnPct(pnl, initial_cash)]

(***************************************************************************)
(* The callers: the data feed fills the series, scripts/run_backtest.py    *)
(* runs generate -> execute -> run on it; the unit tests hand a table of   *)
(* orders directly to run_backtest.                                        *)
(***************************************************************************)
NoTable == [cols |-> {}, rows |-> <<>>]
NoResult == [none |-> TRUE]
NoParams ==
    [year |-> 0, anchor |-> 0, cash |-> 0, buy_days |-> 0, sell_days |-> 0,
     sell_execution_time |-> <<>>, slippage_bps |-> 0,
     min_liquidity_check |-> FALSE, initial_cash |-> 0]

EngineQtys == {50, 100}
EnginePrices == {100, 110}
EngineCashes == {0, 10000, 15000}

Init ==
    /\ pc = "feed"
    /\ df = <<>>
    /\ index_kind = "datetime"
    /\ params = NoParams
    /\ orders = NoTable
    /\ executed = NoTable
    /\ result = NoResult

\* the feed delivers the next bar of the series
AddBar ==
    /\ pc = "feed"
    /\ index_kind = "datetime"
    /\ Len(df) < MaxBars
    /\ \E ts \in Stamps, shape \in BarShapes :
         /\ IF df = <<>> THEN TRUE ELSE df[Len(df)].ts < ts
         /\ df' = Append(df, MkBar(ts, shape))
    /\ UNCHANGED <<pc, index_kind, params, orders, executed, result>>

\* generate_orders(df, cash, XmasParams(year, buy_days, sell_days, time))
Generate ==
    /\ pc = "feed"
    /\ \E year \in Years, cash \in Cashes, buy_days \in 0..MaxDays,
          sell_days \in 0..MaxDays, clock \in SellClocks :
         LET p == [params EXCEPT !.year = year, !.anchor = Xmas(year),
                                 !.cash = cash,
                                 !.buy_days = buy_days, !.sell_days = sell_days,
                                 !.sell_execution_time = clock,
                                 !.initial_cash = cash]
         IN  /\ params' = p
             /\ IF Raises(ResolveDays(df, index_kind, Xmas(year), buy_days, sell_days))
                THEN /\ pc' = "failed"
                     /\ result' = ResolveDays(df, index_kind, Xmas(year),
                                              buy_days, sell_days)
                     /\ orders' = orders
                ELSE /\ pc' = "generated"
                     /\ orders' = GenerateOrders(df, cash, p)
                     /\ result' = result
    /\ UNCHANGED <<df, index_kind, executed>>

\* execute_orders(orders, df, slippage_bps, min_liquidity_check)
Execute ==
    /\ pc \in {"generated", "handmade"}
    /\ \E slippage_bps \in Slippages, min_liquidity_check \in BOOLEAN :
         /\ params' = [params EXCEPT !.slippage_bps = slippage_bps,
                                     !.min_liquidity_check = min_liquidity_check]
         /\ executed' = ExecuteOrders(orders, df, slippage_bps, min_liquidity_check)
    /\ pc' = "executed"
    /\ UNCHANGED <<df, index_kind, orders, result>>

\* run_backtest(executed, initial_cash)
Run ==
    /\ pc \in {"executed", "direct"}
    /\ result' = RunBacktest(executed, params.initial_cash)
    /\ pc' = "done"
    /\ UNCHANGED <<df, index_kind, params, orders, executed>>

Next == AddBar \/ Generate \/ Execute \/ Run

Spec == Init /\ [][Next]_vars

\* a test builds a table of orders and an initial cash by hand
InitEngine ==
    /\ pc = "direct"
    /\ df = <<>>
    /\ index_kind = "datetime"
    /\ \E initial_cash \in EngineCashes :
         params = [NoParams EXCEPT !.initial_cash = initial_cash]
    /\ orders = NoTable
    /\ executed = [cols |-> OrderCols, rows |-> <<>>]
    /\ result = NoResult

\* the next row of the hand-built table, one row per day, value signed by side
AddOrder ==
    /\ pc = "direct"
    /\ Len(executed.rows) < MaxOrders
    /\ \E side \in {"BUY", "SELL"}, qty \in EngineQtys, price \in EnginePrices :
         executed' =
           [executed EXCEPT !.rows =
              Append(@, [time |-> Stamp(2023, 1, Len(@) + 1, 0, 0),
                         side |-> side, qty |-> qty, price |-> price,
                         value |-> IF side = "BUY" THEN -qty * price
                                   ELSE qty * price])]
    /\ UNCHANGED <<pc, df, index_kind, params, orders, result>>

NextEngine == AddOrder \/ Run

SpecEngine == InitEngine /\ [][NextEngine]_vars

Anchors ==
    {Stamp(2023, 12, 25, 0, 0), Stamp(2023, 12, 26, 0, 0), Stamp(2022, 12, 25, 0, 0)}

\* the series as a test builds it with index=[0, 1, 2, ...]
DropIndex ==
    /\ pc = "feed"
    /\ index_kind = "datetime"
    /\ index_kind' = "range"
    /\ df' = [i \in 1..Len(df) |-> [df[i] EXCEPT !.ts = i - 1]]
    /\ UNCHANGED <<pc, params, orders, executed, result>>

\* get_trading_days_around_date(df, anchor, before_days, after_days)
Resolve ==
    /\ pc = "feed"
    /\ \E anchor \in Anchors, before_days \in 0..MaxDays, after_days \in 0..MaxDays :
         /\ params' = [params EXCEPT !.anchor = anchor, !.buy_days = before_days,
                                     !.sell_days = after_days]
         /\ result' = ResolveDays(df, index_kind, anchor, before_days, after_days)
    /\ pc' = "resolved"
    /\ UNCHANGED <<df, index_kind, orders, executed>>

NextCalendar == AddBar \/ DropIndex \/ Resolve \/ Generate

SpecCalendar == Init /\ [][NextCalendar]_vars

\* a two-bar day and a one-bar day; volumes at which 2 shares are exactly 1%
\* of the bar, a bar without volume, and a series without a Volume column
ExecStamps ==
    {Stamp(2023, 12, 26, 9, 30), Stamp(2023, 12, 26, 10, 30),
     Stamp(2023, 12, 27, 9, 30)}
ExecShapes ==
    {[Open |-> 2 * BpsScale, High |-> 3 * BpsScale, Low |-> 1 * BpsScale,
      Close |-> 2 * BpsScale, Volume |-> 200],
     [Open |-> 2 * BpsScale, High |-> 3 * BpsScale, Low |-> 1 * BpsScale,
      Close |-> 2 * BpsScale, Volume |-> 0],
     [Open |-> 2 * BpsScale, High |-> 3 * BpsScale, Low |-> 1 * BpsScale,
      Close |-> 2 * BpsScale]}
IntendedTimes ==
    {Stamp(2023, 12, 26, 16, 0),
     Stamp(2023, 12, 26, 16, 0) + 30,   \* 16:00:30
     Stamp(2023, 12, 27, 16, 30), Stamp(2023, 12, 28, 10, 30)}
IntendedQtys == {2, 3}
IntendedPrice == 2 * BpsScale

\* one more bar of a series whose bars all carry the same columns
AddExecBar ==
    /\ pc = "feed"
    /\ Len(df) < MaxBars
    /\ \E ts \in ExecStamps, shape \in ExecShapes :
         /\ IF df = <<>> THEN TRUE
            ELSE /\ df[Len(df)].ts < ts
                 /\ DOMAIN df[1] = DOMAIN shape \cup {"ts"}
         /\ df' = Append(df, [ts |-> ts] @@ shape)
    /\ UNCHANGED <<pc, index_kind, params, orders, executed, result>>

\* an empty table of intended orders with the five order columns
StartBatch ==
    /\ pc = "feed"
    /\ orders' = [cols |-> OrderCols, rows |-> <<>>]
    /\ pc' = "handmade"
    /\ UNCHANGED <<df, index_kind, params, executed, result>>

\* one more intended order, in any time order
AddIntended ==
    /\ pc = "handmade"
    /\ Len(orders.rows) < MaxIntended
    /\ \E time \in IntendedTimes, side \in {"BUY", "SELL"}, qty \in IntendedQtys :
         orders' = [orders EXCEPT !.rows =
                      Append(@, [time |-> time, side |-> side, qty |-> qty,
                                 price |-> IntendedPrice,
                                 value |-> IF side = "BUY" THEN -qty * IntendedPrice
                                           ELSE qty * IntendedPrice])]
    /\ UNCHANGED <<pc, df, index_kind, params, executed, result>>

NextExecute == AddExecBar \/ StartBatch \/ AddIntended \/ Execute

SpecExecute == Init /\ [][NextExecute]_vars

\* daily bars: one bar per date, timestamped at midnight
DailyStamps ==
    {Stamp(2023, 12, 22, 0, 0), Stamp(2023, 12, 26, 0, 0), Stamp(2023, 12, 27, 0, 0)}

AddDailyBar ==
    /\ pc = "feed"
    /\ Len(df) < MaxBars
    /\ \E ts \in DailyStamps, shape \in BarShapes :
         /\ IF df = <<>> THEN TRUE ELSE df[Len(df)].ts < ts
         /\ df' = Append(df, MkBar(ts, shape))
    /\ UNCHANGED <<pc, index_kind, params, orders, executed, result>>

NextDaily == AddDailyBar \/ Generate \/ Execute

SpecDaily == Init /\ [][NextDaily]_vars

\* an intraday day with gaps, a day with one daily bar, and days without bars
IntradayStamps ==
    {Stamp(2023, 6, 15, 9, 30), Stamp(2023, 6, 15, 10, 0), Stamp(2023, 6, 15, 11, 0),
     Stamp(2023, 6, 15, 16, 0), Stamp(2023, 6, 16, 0, 0)}
TargetDates ==
    {Stamp(2023, 6, 15, 0, 0), Stamp(2023, 6, 15, 10, 30), Stamp(2023, 6, 16, 0, 0),
     Stamp(2023, 1, 1, 0, 0)}
LocateClocks == {ClockStr(9, 0), ClockStr(10, 30), ClockStr(17, 0)}

AddIntradayBar ==
    /\ pc = "feed"
    /\ Len(df) < MaxDayBars
    /\ \E ts \in IntradayStamps, shape \in BarShapes :
         /\ IF df = <<>> THEN TRUE ELSE df[Len(df)].ts < ts
         /\ df' = Append(df, MkBar(ts, shape))
    /\ UNCHANGED <<pc, index_kind, params, orders, executed, result>>

\* find_execution_bar(df, target_date, time_str)
Locate ==
    /\ pc = "feed"
    /\ \E target_date \in TargetDates, time_str \in LocateClocks :
         /\ params' = [params EXCEPT !.anchor = target_date,
                                     !.sell_execution_time = time_str]
         /\ result' = LocateBar(df, target_date, time_str)
    /\ pc' = "located"
    /\ UNCHANGED <<df, index_kind, orders, executed>>

\* get_market_open_close(df, date)
SessionBounds ==
    /\ pc = "feed"
    /\ \E date \in TargetDates :
         /\ params' = [params EXCEPT !.anchor = date]
         /\ result' = GetMarketOpenClose(df, date)
    /\ pc' = "bounded"
    /\ UNCHANGED <<df, index_kind, orders, executed>>

\* the timestamps and the sessions is_market_hours is asked about
HourStamps ==
    {Stamp(2023, 6, 15, 8, 30), Stamp(2023, 6, 15, 9, 0), Stamp(2023, 6, 15, 9, 30),
     Stamp(2023, 6, 15, 10, 30), Stamp(2023, 6, 15, 16, 0),
     Stamp(2023, 6, 15, 16, 0) + 30, Stamp(2023, 6, 15, 17, 0)}
Sessions ==
    {[market_open |-> ClockStr(9, 30), market_close |-> ClockStr(16, 0)],
     [market_open |-> ClockStr(8, 0), market_close |-> ClockStr(17, 0)]}

\* is_market_hours(timestamp, market_open, market_close)
CheckHours ==
    /\ pc = "feed"
    /\ \E timestamp \in HourStamps, session \in Sessions :
         /\ params' = [params EXCEPT !.anchor = timestamp]
         /\ result' = [within |-> IsMarketHours(timestamp, session.market_open,
                                               session.market_close),
                       market_open |-> session.market_open,
                       market_close |-> session.market_close]
    /\ pc' = "checked"
    /\ UNCHANGED <<df, index_kind, orders, executed>>

NextTiming == AddIntradayBar \/ Locate \/ SessionBounds \/ CheckHours

SpecTiming == Init /\ [][NextTiming]_vars

(***************************************************************************)
(* Vocabulary of the properties                                            *)
(***************************************************************************)
MonthOf(ts) == ((ts \div (86400 * 31)) % 12) + 1

RECURSIVE SumFn(_, _)
SumFn(f, S) ==
    IF S = {} THEN 0
    ELSE LET x == CHOOSE y \in S : TRUE IN f[x] + SumFn(f, S \ {x})

\* the signed cash value of a row by the data model: -qty*price for a BUY
SignedValue(r) == IF r.side = "BUY" THEN -(r.qty * r.price) ELSE r.qty * r.price
TotalSignedValue(rows) ==
    SumFn([i \in 1..Len(rows) |-> SignedValue(rows[i])], 1..Len(rows))
\* the sum of the value field, taken in no particular order
TotalValueField(rows) ==
    SumFn([i \in 1..Len(rows) |-> rows[i].value], 1..Len(rows))
TotalQty(rows, side) ==
    SumFn([i \in 1..Len(rows) |-> IF rows[i].side = side THEN rows[i].qty ELSE 0],
          1..Len(rows))

\* the intended order an executed row came from
IntendedOf(r) ==
    CHOOSE o \in {orders.rows[i] : i \in 1..Len(orders.rows)} :
        o.time = r.original_time /\ o.side = r.side

ResolvedDays == TradingDaysAround(df, Xmas(params.year), params.buy_days, params.sell_days)

\* the series is not empty and all its bars lie in January-November of the year
JanNovOnly ==
    /\ df # <<>>
    /\ \A i \in 1..Len(df) :
         YearOf(df[i].ts) = params.year /\ MonthOf(df[i].ts) <= 11

(***************************************************************************)
(* C1: every executed BUY has intended_price <= execution_price <= High of *)
(* its execution bar, every executed SELL has Low of its execution bar <=  *)
(* execution_price <= intended_price (slippage_bps >= 0, Low <= High).     *)
(***************************************************************************)
C1_SlippageBounded ==
    pc \in {"executed", "done"} =>
      \A i \in 1..Len(executed.rows) :
        LET r == executed.rows[i]
            bar == BarAt(df, r.time)
            intended == IntendedOf(r).price
        IN  IF r.side = "BUY"
            THEN intended <= r.price /\ r.price <= bar.High
            ELSE bar.Low <= r.price /\ r.price <= intended

(***************************************************************************)
(* C2: on a series with bars only in January-November of the strategy      *)
(* year, generate raises no error and returns a zero-row table with the    *)
(* fields time, side, qty, price, value.                                   *)
(***************************************************************************)
C2_JanNovYieldsNoOrders ==
    (pc \in {"generated", "failed"} /\ JanNovOnly) =>
      /\ pc = "generated"
      /\ orders = [cols |-> OrderCols, rows |-> <<>>]

\* C2 as amended: no error, the five fields, and no SELL row; the rows are
\* BUY rows on dates of the series, and there is none when cash <= 0.
C2_JanNovYieldsNoSells ==
    (pc \in {"generated", "failed"} /\ JanNovOnly) =>
      /\ pc = "generated"
      /\ orders.cols = OrderCols
      /\ \A i \in 1..Len(orders.rows) :
           /\ orders.rows[i].side = "BUY"
           /\ orders.rows[i].qty >= 1
           /\ \E j \in 1..Len(df) : df[j].ts = orders.rows[i].time
      /\ params.cash <= 0 => orders.rows = <<>>

C2_Witness ==
    /\ pc = "generated"
    /\ JanNovOnly
    /\ params.cash > 0
    /\ Len(orders.rows) = 1

(***************************************************************************)
(* C3: in generate -> execute -> run the result's remaining_shares is      *)
(* never negative.                                                         *)
(***************************************************************************)
C3_NeverOversold ==
    (pc = "done" /\ "remaining_shares" \in DOMAIN result) =>
      result.remaining_shares >= 0

(***************************************************************************)
(* C4: when the Calendar Resolver returned exactly sell_days >= 1 sell     *)
(* dates, the sell loop ends with position 0: total SELL quantity equals   *)
(* total BUY quantity.                                                     *)
(***************************************************************************)
C4_FullLiquidation ==
    (/\ pc = "generated"
     /\ params.sell_days >= 1
     /\ Len(ResolvedDays.post) = params.sell_days) =>
      TotalQty(orders.rows, "SELL") = TotalQty(orders.rows, "BUY")

C4_Witness ==
    /\ pc = "generated"
    /\ params.sell_days = 2
    /\ Len(ResolvedDays.post) = 2
    /\ TotalQty(orders.rows, "BUY") >= 3
    /\ Cardinality({i \in 1..Len(orders.rows) : orders.rows[i].side = "SELL"}) = 2

(***************************************************************************)
(* C5: every BUY timestamp is before December 25 00:00 of the year, every  *)
(* SELL timestamp after it; the table is sorted by time, so all BUY rows   *)
(* precede all SELL rows.                                                  *)
(***************************************************************************)
C5_LadderOrdering ==
    pc = "generated" =>
      /\ \A i \in 1..Len(orders.rows) :
           IF orders.rows[i].side = "BUY"
           THEN orders.rows[i].time < Xmas(params.year)
           ELSE orders.rows[i].time > Xmas(params.year)
      /\ \A i, j \in 1..Len(orders.rows) :
           i < j => /\ orders.rows[i].time <= orders.rows[j].time
                    /\ ~(orders.rows[i].side = "SELL" /\ orders.rows[j].side = "BUY")

C5_Witness ==
    /\ pc = "generated"
    /\ \E i \in 1..Len(df) : DateOf(df[i].ts) = DateOf(Xmas(params.year))
    /\ \E i, j \in 1..Len(orders.rows) :
         orders.rows[i].side = "BUY" /\ orders.rows[j].side = "SELL"

(***************************************************************************)
(* C6: for a non-empty table, ending_cash = initial_cash + the sum of the  *)
(* signed values of all orders, whatever the order and sides of the rows.  *)
(***************************************************************************)
C6_CashFlowConservation ==
    (pc = "done" /\ executed.rows # <<>>) =>
      result.ending_cash = params.initial_cash + TotalValueField(executed.rows)

C6_Witness ==
    /\ pc = "done"
    /\ Len(executed.rows) = 3
    /\ executed.rows[1].side = "SELL"
    /\ executed.rows[2].side = "BUY"
    /\ result.ending_cash # params.initial_cash

(***************************************************************************)
(* C7: for a non-empty table, remaining_shares = total BUY quantity minus  *)
(* total SELL quantity, also for BUY-only and SELL-only tables, and a      *)
(* negative difference is not clamped to 0.                                *)
(***************************************************************************)
C7_PositionConservation ==
    (pc = "done" /\ executed.rows # <<>>) =>
      result.remaining_shares =
          TotalQty(executed.rows, "BUY") - TotalQty(executed.rows, "SELL")

C7_Witness ==
    /\ pc = "done"
    /\ executed.rows # <<>>
    /\ \A i \in 1..Len(executed.rows) : executed.rows[i].side = "SELL"
    /\ result.remaining_shares < 0

(***************************************************************************)
(* C8: for an empty table and initial cash X >= 0, run returns             *)
(* initial_cash = X, ending_cash = X, remaining_shares = 0,                *)
(* remaining_value_mark = 0, pnl = 0 and return_pct = 0.                   *)
(***************************************************************************)
C8_ZeroState ==
    (pc = "done" /\ executed.rows = <<>> /\ params.initial_cash >= 0) =>
      /\ result.initial_cash = params.initial_cash
      /\ result.ending_cash = params.initial_cash
      /\ result.remaining_shares = 0
      /\ result.remaining_value_mark = 0
      /\ result.pnl = 0
      /\ result.return_pct.num = 0

C8_Witness ==
    /\ pc = "done"
    /\ executed.rows = <<>>
    /\ params.initial_cash > 0
    /\ result.ending_cash = params.initial_cash

(***************************************************************************)
(* C9: for every input, the empty table included, the record returned by   *)
(* run has the fields initial_cash, ending_cash, remaining_shares,         *)
(* remaining_value_mark, total_value, pnl and return_pct, with             *)
(* total_value = ending_cash + remaining_value_mark.                       *)
(***************************************************************************)
ResultFields ==
    {"initial_cash", "ending_cash", "remaining_shares", "remaining_value_mark",
     "total_value", "pnl", "return_pct"}

C9_ResultHasAllFields ==
    pc = "done" =>
      /\ ResultFields \subseteq DOMAIN result
      /\ result.total_value = result.ending_cash + result.remaining_value_mark

(***************************************************************************)
(* C10: for a non-empty table, pnl = ending_cash + remaining_value_mark -  *)
(* initial_cash; for a flat round trip pnl is the sum of the signed order  *)
(* values whatever initial_cash is; BUY 100 @ 100 then SELL 100 @ 110 from *)
(* 15000 gives pnl 1000, remaining_shares 0, return_pct = 1000 / 15000.    *)
(***************************************************************************)
RoundTripExample ==
    /\ params.initial_cash = 15000
    /\ Len(executed.rows) = 2
    /\ executed.rows[1].side = "BUY" /\ executed.rows[1].qty = 100
    /\ executed.rows[1].price = 100
    /\ executed.rows[2].side = "SELL" /\ executed.rows[2].qty = 100
    /\ executed.rows[2].price = 110

C10_RoundTripPnl ==
    (pc = "done" /\ executed.rows # <<>>) =>
      /\ result.pnl =
           result.ending_cash + result.remaining_value_mark - params.initial_cash
      /\ TotalQty(executed.rows, "BUY") = TotalQty(executed.rows, "SELL") =>
           result.pnl = TotalSignedValue(executed.rows)
      /\ RoundTripExample =>
           /\ result.pnl = 1000
           /\ result.remaining_shares = 0
           /\ result.return_pct.num * 15000 = 1000 * result.return_pct.den

C10_Witness ==
    /\ pc = "done"
    /\ RoundTripExample
    /\ result.pnl = 1000

(***************************************************************************)
(* C11: for a non-empty, time-sorted table, remaining_value_mark is        *)
(* remaining_shares times the price of the last order when                 *)
(* remaining_shares > 0 and 0 when remaining_shares <= 0; a BUY-only table *)
(* whose rows all have value = -qty*price at one price yields pnl 0.       *)
(***************************************************************************)
TimeSorted(rows) ==
    \A i, j \in 1..Len(rows) : i < j => rows[i].time <= rows[j].time

LatestRow(rows) ==
    CHOOSE r \in {rows[i] : i \in 1..Len(rows)} :
        \A i \in 1..Len(rows) : rows[i].time <= r.time

BuyOnlyAtOnePrice(rows) ==
    \A i \in 1..Len(rows) :
        /\ rows[i].side = "BUY"
        /\ rows[i].price = rows[1].price
        /\ rows[i].value = -(rows[i].qty * rows[i].price)

C11_MarkToMarket ==
    (pc = "done" /\ executed.rows # <<>> /\ TimeSorted(executed.rows)) =>
      LET held == TotalQty(executed.rows, "BUY") - TotalQty(executed.rows, "SELL")
      IN  /\ held > 0 =>
               result.remaining_value_mark = held * LatestRow(executed.rows).price
          /\ held <= 0 => result.remaining_value_mark = 0
          /\ BuyOnlyAtOnePrice(executed.rows) => result.pnl = 0

C11_Witness ==
    /\ pc = "done"
    /\ Len(executed.rows) >= 2
    /\ executed.rows[1].price # executed.rows[Len(executed.rows)].price
    /\ result.remaining_shares > 0
    /\ result.remaining_value_mark =
         result.remaining_shares * executed.rows[Len(executed.rows)].price

(***************************************************************************)
(* Bar lookup                                                              *)
(***************************************************************************)
Range(s) == {s[i] : i \in 1..Len(s)}
\* the timestamps of the bars on the calendar date of params.anchor
StampsOnTarget == {df[i].ts : i \in {j \in 1..Len(df) : DateOf(df[j].ts) = DateOf(params.anchor)}}
SetMax(S) == CHOOSE x \in S : \A y \in S : y <= x
\* target_date's calendar date plus time_of_day
TargetTime ==
    Midnight(DateOf(params.anchor))
      + (params.sell_execution_time[1] * 10 + params.sell_execution_time[2]) * 3600
      + (params.sell_execution_time[3] * 10 + params.sell_execution_time[4]) * 60
GapDay ==
    {Stamp(2023, 6, 15, 9, 30), Stamp(2023, 6, 15, 10, 0), Stamp(2023, 6, 15, 11, 0),
     Stamp(2023, 6, 15, 16, 0)}

\* C12: when the series has a bar on target_date, locate does not fail and
\* returns a bar of that date: the only bar when the date has one bar,
\* otherwise the earliest bar at or after target_date + time_of_day, or the
\* last bar of the day when there is none (bars 09:30, 10:00, 11:00, 16:00:
\* 10:30 gives 11:00, 17:00 gives 16:00, 09:00 gives 09:30).
C12_LocateOnDay ==
    (pc = "located" /\ StampsOnTarget # {}) =>
      /\ ~Raises(result)
      /\ result.bar \in StampsOnTarget
      /\ Cardinality(StampsOnTarget) = 1 => StampsOnTarget = {result.bar}
      /\ Cardinality(StampsOnTarget) > 1 =>
           LET later == {ts \in StampsOnTarget : ts >= TargetTime}
           IN  result.bar = IF later # {} THEN SetMin(later) ELSE SetMax(StampsOnTarget)
      /\ StampsOnTarget = GapDay =>
           /\ params.sell_execution_time = ClockStr(10, 30)
                => result.bar = Stamp(2023, 6, 15, 11, 0)
           /\ params.sell_execution_time = ClockStr(17, 0)
                => result.bar = Stamp(2023, 6, 15, 16, 0)
           /\ params.sell_execution_time = ClockStr(9, 0)
                => result.bar = Stamp(2023, 6, 15, 9, 30)

\* 17:00 on the day with gaps: no bar is at or after it, the 16:00 bar is used
C12_Witness ==
    /\ pc = "located"
    /\ StampsOnTarget = GapDay
    /\ params.sell_execution_time = ClockStr(17, 0)
    /\ result = [bar |-> Stamp(2023, 6, 15, 16, 0)]

\* C13: locate fails with the no-data error exactly when the series has no
\* bar on the date, whatever the time of day; session_bounds fails under the
\* same condition and otherwise returns the first and the last bar of the
\* date, and every bar locate returns for the date lies between the two.
C13_NoDataExactly ==
    /\ pc = "located" =>
         /\ StampsOnTarget = {} <=> result = RuntimeError("No bars on")
         /\ StampsOnTarget # {} <=> DOMAIN result = {"bar"}
         /\ StampsOnTarget # {} =>
              /\ ~Raises(GetMarketOpenClose(df, params.anchor))
              /\ GetMarketOpenClose(df, params.anchor).market_open <= result.bar
              /\ result.bar <= GetMarketOpenClose(df, params.anchor).market_close
    /\ pc = "bounded" =>
         /\ StampsOnTarget = {} <=> result = RuntimeError("No market data for")
         /\ StampsOnTarget # {} =>
              /\ result = [market_open |-> SetMin(StampsOnTarget),
                           market_close |-> SetMax(StampsOnTarget)]
              /\ \A time_str \in LocateClocks :
                   /\ LocateBar(df, params.anchor, time_str).bar >= result.market_open
                   /\ LocateBar(df, params.anchor, time_str).bar <= result.market_close

\* the series has bars, but none on the date asked for
C13_Witness ==
    /\ pc = "bounded"
    /\ df # <<>>
    /\ StampsOnTarget = {}
    /\ result = RuntimeError("No market data for")

(***************************************************************************)
(* Calendar resolution                                                     *)
(***************************************************************************)
Resolved == pc = "resolved" /\ ~Raises(result)
Ascending(s) == \A i, j \in 1..Len(s) : i < j => s[i] < s[j]
\* the calendar dates (as midnights) on which the series has a bar
BarDates == {Midnight(DateOf(df[i].ts)) : i \in 1..Len(df)}
DatesBeforeAnchor ==
    {d \in BarDates : YearOf(d) = YearOf(params.anchor) /\ d < params.anchor}
DatesAfterAnchor ==
    {d \in BarDates : YearOf(d) = YearOf(params.anchor) /\ d > params.anchor}

\* C14: for every before_n >= 0, 0 included, pre_dates is exactly the last
\* min(before_n, k) of the k dates of the anchor's year strictly before the
\* anchor, ascending, so len(pre_dates) <= before_n and every date has a bar.
C14_PreDatesLastN ==
    Resolved =>
      /\ Len(result.pre) = Min(params.buy_days, Cardinality(DatesBeforeAnchor))
      /\ Len(result.pre) <= params.buy_days
      /\ Ascending(result.pre)
      /\ Range(result.pre) \subseteq DatesBeforeAnchor
      /\ \A d \in DatesBeforeAnchor \ Range(result.pre) :
           \A e \in Range(result.pre) : d < e

\* C15: for every after_n >= 0, post_dates is exactly the first
\* min(after_n, k) of the k dates strictly after the anchor that lie in the
\* anchor's calendar year, ascending; a date of a later year is never returned.
C15_PostDatesFirstN ==
    Resolved =>
      /\ Len(result.post) = Min(params.sell_days, Cardinality(DatesAfterAnchor))
      /\ Ascending(result.post)
      /\ Range(result.post) \subseteq DatesAfterAnchor
      /\ \A d \in DatesAfterAnchor \ Range(result.post) :
           \A e \in Range(result.post) : e < d
      /\ \A e \in Range(result.post) : YearOf(e) = YearOf(params.anchor)

\* two dates were asked for, the series goes on into the next year, and only
\* the one date left in the anchor's year comes back
C15_Witness ==
    /\ Resolved
    /\ params.sell_days = 2
    /\ Len(result.post) = 1
    /\ \E i \in 1..Len(df) : YearOf(df[i].ts) > YearOf(params.anchor)

\* C16: resolve fails with the index error when the series is not
\* date/time-indexed, whatever else holds, and with the no-data error when a
\* date/time-indexed series has no bar in the anchor's year; a failure
\* returns no dates, and generate for a year absent from the series ends in
\* that error with no order table.
C16_ResolveErrors ==
    /\ pc = "resolved" =>
         /\ index_kind # "datetime" <=>
              result = ValueError("DataFrame index must be DatetimeIndex.")
         /\ (index_kind = "datetime"
               /\ \A i \in 1..Len(df) : YearOf(df[i].ts) # YearOf(params.anchor))
              <=> result = ValueError("No data for year")
         /\ Raises(result) => DOMAIN result = {"error", "message"}
         /\ ~Raises(result) => DOMAIN result = {"pre", "post"}
    /\ (pc \in {"generated", "failed"} /\ index_kind = "datetime"
          /\ \A i \in 1..Len(df) : YearOf(df[i].ts) # params.year)
         => /\ pc = "failed"
            /\ result = ValueError("No data for year")
            /\ orders = NoTable

\* a series with bars, none of them in the anchor's year, was refused
C16_Witness ==
    /\ pc = "resolved"
    /\ index_kind = "datetime"
    /\ df # <<>>
    /\ result = ValueError("No data for year")

(***************************************************************************)
(* Execution of a batch                                                    *)
(***************************************************************************)
Executed == pc = "executed"
\* the output row of an intended order is told by what it copies from it
RowOf(o, r) == r.original_time = o.time /\ r.side = o.side /\ r.qty = o.qty
HasRow(o) == \E j \in 1..Len(executed.rows) : RowOf(o, executed.rows[j])
\* the time of day, in seconds after midnight, is from 09:30:00 to 16:00:00
InSession(ts) == ClockOf(ts) >= 9 * 3600 + 30 * 60 /\ ClockOf(ts) <= 16 * 3600
BarOnDateOf(ts) == \E i \in 1..Len(df) : DateOf(df[i].ts) = DateOf(ts)
PassesTiming(o) == BarOnDateOf(o.time) /\ InSession(o.time)

\* C17: an intended order has a row in the output of execute only if the
\* series has a bar on the order's calendar date and its time of day is
\* within 09:30-16:00 inclusive; an order failing either is dropped with no
\* error and no row.
C17_TimingGate ==
    Executed =>
      /\ DOMAIN executed = {"cols", "rows"}
      /\ \A j \in 1..Len(executed.rows) :
           /\ \E i \in 1..Len(orders.rows) : RowOf(orders.rows[i], executed.rows[j])
           /\ BarOnDateOf(executed.rows[j].original_time)
           /\ InSession(executed.rows[j].original_time)
      /\ \A i \in 1..Len(orders.rows) :
           ~PassesTiming(orders.rows[i]) => ~HasRow(orders.rows[i])

\* the bar execute re-resolves for an order: the day's bar at or after 09:30
ExecutionBarOf(o) == BarAt(df, FindExecutionBar(df, o.time, ClockStr(9, 30)))

\* C18: with min_liquidity_check enabled, an order that passes timing
\* validation is executed if and only if its execution bar has a volume
\* V > 0 with qty / V <= 1% (exactly 1% passes, V <= 0 drops); with the check
\* disabled no order that passes timing validation is dropped.
C18_LiquidityGate ==
    Executed =>
      \A i \in 1..Len(orders.rows) :
        ValidateOrderTiming(orders.rows[i], df) =>
          IF params.min_liquidity_check
          THEN HasRow(orders.rows[i]) <=>
                 /\ "Volume" \in DOMAIN ExecutionBarOf(orders.rows[i])
                 /\ ExecutionBarOf(orders.rows[i]).Volume > 0
                 /\ orders.rows[i].qty * 100 <= ExecutionBarOf(orders.rows[i]).Volume
          ELSE HasRow(orders.rows[i])

\* 2 shares of a 200-share bar are executed, 3 shares of the same bar are not
C18_Witness ==
    /\ Executed
    /\ params.min_liquidity_check
    /\ Len(orders.rows) = 2
    /\ orders.rows[1].time = orders.rows[2].time
    /\ orders.rows[1].qty = 3
    /\ orders.rows[2].qty = 2
    /\ ValidateOrderTiming(orders.rows[2], df)
    /\ "Volume" \in DOMAIN ExecutionBarOf(orders.rows[2])
    /\ ExecutionBarOf(orders.rows[2]).Volume = 200
    /\ Len(executed.rows) = 1
    /\ executed.rows[1].qty = 2

\* the rows execute returns for the one-row table holding order o
AloneRows(o) ==
    ExecuteOrders([cols |-> orders.cols, rows |-> <<o>>], df,
                  params.slippage_bps, params.min_liquidity_check).rows
Count(rows, r) == Cardinality({j \in 1..Len(rows) : rows[j] = r})
CountAlone(r) ==
    SumFn([i \in 1..Len(orders.rows) |-> Count(AloneRows(orders.rows[i]), r)],
          1..Len(orders.rows))

\* C19: execute returns a table for every batch; an order whose lookup fails
\* is dropped alone, and the output of a batch holds exactly the rows that
\* executing each of its orders alone returns, sorted by time.
C19_BatchIsUnionOfSingles ==
    Executed =>
      /\ DOMAIN executed = {"cols", "rows"}
      /\ TimeSorted(executed.rows)
      /\ \A j \in 1..Len(executed.rows) :
           Count(executed.rows, executed.rows[j]) = CountAlone(executed.rows[j])
      /\ \A i \in 1..Len(orders.rows) :
           \A r \in Range(AloneRows(orders.rows[i])) :
             Count(executed.rows, r) = CountAlone(r)

\* the first order of the batch has no bar on its date, the second is executed
C19_Witness ==
    /\ Executed
    /\ Len(orders.rows) = 2
    /\ ~BarOnDateOf(orders.rows[1].time)
    /\ AloneRows(orders.rows[1]) = <<>>
    /\ Len(executed.rows) = 1
    /\ RowOf(orders.rows[2], executed.rows[1])

\* C20: when every intended order is dropped, or the input is empty, execute
\* returns a zero-row result with the fields of an executed order: time,
\* side, qty, price, value, original_time and slippage_bps.
C20_EmptyResultSchema ==
    (Executed /\ executed.rows = <<>>) =>
      executed.cols = {"time", "side", "qty", "price", "value",
                       "original_time", "slippage_bps"}

(***************************************************************************)
(* The ladder generate_orders returns                                      *)
(***************************************************************************)
Generated == pc = "generated"
RowsOfSide(rows, side) == {i \in 1..Len(rows) : rows[i].side = side}

\* C21: for cash <= 0, on every series the Calendar Resolver accepts,
\* generate emits no BUY and no SELL and returns a zero-row table with the
\* fields time, side, qty, price, value.
C21_NoCashNoOrders ==
    (Generated /\ params.cash <= 0) =>
      /\ orders.rows = <<>>
      /\ orders.cols = {"time", "side", "qty", "price", "value"}

\* negative cash, and a series with a buy date and a sell date to trade on
C21_Witness ==
    /\ Generated
    /\ params.cash < 0
    /\ params.buy_days >= 1
    /\ params.sell_days >= 1
    /\ ResolvedDays.pre # <<>>
    /\ ResolvedDays.post # <<>>
    /\ orders.rows = <<>>

\* C22: for buy_days >= 0 and sell_days >= 0 generate returns at most
\* buy_days BUY orders and at most sell_days SELL orders, so at most
\* buy_days + sell_days orders, and at most one order per calendar date.
C22_OrderCountBounded ==
    Generated =>
      /\ Cardinality(RowsOfSide(orders.rows, "BUY")) <= params.buy_days
      /\ Cardinality(RowsOfSide(orders.rows, "SELL")) <= params.sell_days
      /\ Len(orders.rows) <= params.buy_days + params.sell_days
      /\ \A i, j \in 1..Len(orders.rows) :
           i # j => DateOf(orders.rows[i].time) # DateOf(orders.rows[j].time)

\* C24: when at least one BUY was generated and the Calendar Resolver
\* returned at least one sell date, the total SELL quantity equals the total
\* BUY quantity, also when fewer than sell_days dates were returned.
C24_LiquidatedOnLastSellDate ==
    (/\ Generated
     /\ RowsOfSide(orders.rows, "BUY") # {}
     /\ ResolvedDays.post # <<>>) =>
      TotalQty(orders.rows, "SELL") = TotalQty(orders.rows, "BUY")

\* the position after the first k rows of the table
PositionAfter(rows, k) ==
    TotalQty(SubSeq(rows, 1, k), "BUY") - TotalQty(SubSeq(rows, 1, k), "SELL")

\* C25: in the table generate returns, read in time order, the running
\* position is never negative after any prefix, every order has a quantity
\* >= 1, total sold <= total bought, and there is no SELL without a BUY.
C25_RunningPositionNonNegative ==
    Generated =>
      /\ TimeSorted(orders.rows)
      /\ \A k \in 0..Len(orders.rows) : PositionAfter(orders.rows, k) >= 0
      /\ \A i \in 1..Len(orders.rows) : orders.rows[i].qty >= 1
      /\ TotalQty(orders.rows, "SELL") <= TotalQty(orders.rows, "BUY")
      /\ RowsOfSide(orders.rows, "SELL") # {} => RowsOfSide(orders.rows, "BUY") # {}

\* a ladder that sells in two steps what it bought
C25_Witness ==
    /\ Generated
    /\ Cardinality(RowsOfSide(orders.rows, "SELL")) = 2
    /\ PositionAfter(orders.rows, Len(orders.rows) - 1) > 0
    /\ PositionAfter(orders.rows, Len(orders.rows)) = 0

\* the close of the last bar of the calendar date of ts
DayClose(ts) ==
    LET day == {df[j].ts : j \in {k \in 1..Len(df) : DateOf(df[k].ts) = DateOf(ts)}}
    IN  BarAt(df, SetMax(day)).Close
\* what the BUY rows among the first k rows cost
CostAfter(rows, k) ==
    SumFn([i \in 1..k |-> IF rows[i].side = "BUY" THEN rows[i].qty * rows[i].price
                          ELSE 0], 1..k)

\* C26: for cash >= 0 every BUY has qty = floor((cash / max(number of buy
\* dates, 1)) / close of that day's last bar) and value = -qty * price, and
\* the cost of the BUY orders of any prefix never exceeds the starting cash.
C26_BuysWithinCash ==
    (Generated /\ params.cash >= 0) =>
      /\ \A i \in RowsOfSide(orders.rows, "BUY") :
           /\ orders.rows[i].price = DayClose(orders.rows[i].time)
           /\ orders.rows[i].qty * Max(Len(ResolvedDays.pre), 1) * orders.rows[i].price
                <= params.cash
           /\ (orders.rows[i].qty + 1) * Max(Len(ResolvedDays.pre), 1)
                * orders.rows[i].price > params.cash
           /\ orders.rows[i].value = -(orders.rows[i].qty * orders.rows[i].price)
      /\ \A k \in 0..Len(orders.rows) : CostAfter(orders.rows, k) <= params.cash

\* two BUY orders at different closes that spend the whole cash
C26_Witness ==
    /\ Generated
    /\ Cardinality(RowsOfSide(orders.rows, "BUY")) = 2
    /\ orders.rows[1].price # orders.rows[2].price
    /\ CostAfter(orders.rows, 2) <= params.cash
    /\ CostAfter(orders.rows, 2) > params.cash \div 2

(***************************************************************************)
(* Session hours                                                           *)
(***************************************************************************)
\* hour * 60 + minute of a timestamp and of an "HH:MM" bound
MinuteOfDay(ts) == (ts % 86400) \div 60
MinuteOfClock(s) == (s[1] * 10 + s[2]) * 60 + s[3] * 10 + s[4]

\* C23: within_hours(ts, open, close) is true exactly when open <= hour:minute
\* of ts <= close, both ends included: with the defaults 09:30 and 16:00 are
\* inside, 09:00 and 17:00 outside, and 08:30 is inside only for a widened
\* session such as 08:00-17:00.
C23_WithinHoursInclusive ==
    pc = "checked" =>
      /\ result.within <=>
           /\ MinuteOfClock(result.market_open) <= MinuteOfDay(params.anchor)
           /\ MinuteOfDay(params.anchor) <= MinuteOfClock(result.market_close)
      /\ result.market_open = <<0, 9, 3, 0>> =>
           /\ params.anchor \in {Stamp(2023, 6, 15, 9, 30), Stamp(2023, 6, 15, 16, 0)}
                => result.within
           /\ params.anchor \in {Stamp(2023, 6, 15, 9, 0), Stamp(2023, 6, 15, 17, 0),
                                 Stamp(2023, 6, 15, 8, 30)}
                => ~result.within
      /\ (result.market_open = <<0, 8, 0, 0>>
            /\ params.anchor = Stamp(2023, 6, 15, 8, 30)) => result.within

\* 16:00 is inside the default session
C23_Witness ==
    /\ pc = "checked"
    /\ params.anchor = Stamp(2023, 6, 15, 16, 0)
    /\ result = [within |-> TRUE, market_open |-> <<0, 9, 3, 0>>,
                 market_close |-> <<1, 6, 0, 0>>]

(***************************************************************************)
(* The rows execute_orders emits                                           *)
(***************************************************************************)
\* the bars of the series on the calendar date of ts
StampsOnDateOf(ts) ==
    {df[i].ts : i \in {j \in 1..Len(df) : DateOf(df[j].ts) = DateOf(ts)}}
\* locate(series, date of ts, 09:30): the only bar of the date, else its
\* earliest bar at or after 09:30, else its last bar
OpenBarOf(ts) ==
    LET day == StampsOnDateOf(ts)
        later == {b \in day : b % 86400 >= 9 * 3600 + 30 * 60}
    IN  IF Cardinality(day) = 1 THEN SetMax(day)
        ELSE IF later # {} THEN SetMin(later)
        ELSE SetMax(day)

\* C27: every executed order's timestamp is locate(series, date of the
\* intended order, 09:30): a bar of the intended order's calendar date that
\* does not depend on the intended time of day, so all orders of one date
\* are executed at the same bar; original_time keeps the intended timestamp.
C27_ExecutedAtOpenBar ==
    Executed =>
      /\ \A j \in 1..Len(executed.rows) :
           /\ \E i \in 1..Len(orders.rows) :
                executed.rows[j].original_time = orders.rows[i].time
           /\ StampsOnDateOf(executed.rows[j].original_time) # {}
           /\ executed.rows[j].time = OpenBarOf(executed.rows[j].original_time)
           /\ DateOf(executed.rows[j].time) = DateOf(executed.rows[j].original_time)
      /\ \A j, k \in 1..Len(executed.rows) :
           DateOf(executed.rows[j].original_time) = DateOf(executed.rows[k].original_time)
             => executed.rows[j].time = executed.rows[k].time

\* two orders of one date with different times of day, executed at the 09:30
\* bar of a two-bar day
C27_Witness ==
    /\ Executed
    /\ Len(executed.rows) = 2
    /\ executed.rows[1].original_time # executed.rows[2].original_time
    /\ executed.rows[1].time = Stamp(2023, 12, 26, 9, 30)
    /\ executed.rows[2].time = Stamp(2023, 12, 26, 9, 30)
    /\ Cardinality(StampsOnDateOf(executed.rows[1].time)) = 2

\* C28: each intended order yields at most one executed order, with the
\* side and the integer quantity of the intended order (no partial fill)
\* and value = -qty * execution_price for BUY, +qty * execution_price for
\* SELL.
C28_OneRowSameSideQty ==
    Executed =>
      /\ Len(executed.rows) <= Len(orders.rows)
      /\ \E f \in [1..Len(executed.rows) -> 1..Len(orders.rows)] :
           /\ \A j, k \in 1..Len(executed.rows) : j # k => f[j] # f[k]
           /\ \A j \in 1..Len(executed.rows) : RowOf(orders.rows[f[j]], executed.rows[j])
      /\ \A j \in 1..Len(executed.rows) :
           executed.rows[j].value =
             IF executed.rows[j].side = "BUY"
             THEN -(executed.rows[j].qty * executed.rows[j].price)
             ELSE executed.rows[j].qty * executed.rows[j].price

\* a SELL of 3 shares and a BUY of 2, both executed whole
C28_Witness ==
    /\ Executed
    /\ Len(executed.rows) = 2
    /\ \E j \in 1..2 : /\ executed.rows[j].side = "SELL"
                       /\ executed.rows[j].qty = 3
                       /\ executed.rows[j].value = 3 * executed.rows[j].price
    /\ \E j \in 1..2 : /\ executed.rows[j].side = "BUY"
                       /\ executed.rows[j].qty = 2
                       /\ executed.rows[j].value = -2 * executed.rows[j].price

(***************************************************************************)
(* generate_orders -> execute_orders on one series                         *)
(***************************************************************************)
\* the order passes the 1% test against the volume of its execution bar
PassesLiquidity(o) == o.qty * 100 <= BarAt(df, OpenBarOf(o.time)).Volume

\* C29: on daily bars (one bar per date, at midnight) generate prices each
\* SELL at the close of the single bar of its day, and executing the
\* generated orders returns at least one row whenever one of them passes the
\* liquidity check.
C29_DailyBarsAreFilled ==
    pc = "executed" =>
      /\ \A i \in 1..Len(orders.rows) :
           /\ StampsOnDateOf(orders.rows[i].time) = {orders.rows[i].time}
           /\ orders.rows[i].price = BarAt(df, orders.rows[i].time).Close
      /\ (\E i \in 1..Len(orders.rows) :
            params.min_liquidity_check => PassesLiquidity(orders.rows[i]))
           => executed.rows # <<>>

\* C30: an order generated by the strategy is never executed later than it
\* was intended: the executed timestamp is the first bar at or after 09:30
\* of the intended day (or the day's only or last bar), at or before the
\* intended bar, and a BUY is capped at the High, a SELL floored at the Low,
\* of that bar.
C30_ExecutedNotLater ==
    pc \in {"executed", "done"} =>
      \A j \in 1..Len(executed.rows) :
        /\ executed.rows[j].time <= executed.rows[j].original_time
        /\ executed.rows[j].time = OpenBarOf(executed.rows[j].original_time)
        /\ executed.rows[j].side = "BUY" =>
             /\ executed.rows[j].original_time
                  = SetMax(StampsOnDateOf(executed.rows[j].original_time))
             /\ executed.rows[j].price <= BarAt(df, executed.rows[j].time).High
        /\ executed.rows[j].side = "SELL" =>
             executed.rows[j].price >= BarAt(df, executed.rows[j].time).Low

\* a BUY priced at the 16:00 close and executed at the 09:30 bar, at that
\* bar's High, which is below the close that priced it
C30_Witness ==
    /\ pc = "executed"
    /\ \E j \in 1..Len(executed.rows) :
         /\ executed.rows[j].side = "BUY"
         /\ executed.rows[j].time < executed.rows[j].original_time
         /\ executed.rows[j].price = BarAt(df, executed.rows[j].time).High
         /\ executed.rows[j].price < BarAt(df, executed.rows[j].original_time).Close

====
